---------------------------- MODULE Spec2Model ----------------------------
(***************************************************************************)
(* Model of the single-channel crossfade player of CoSounds,              *)
(* src/src/model/core/player.py (class Player).                           *)
(*                                                                         *)
(* The Player drives two pygame mixer channels.  play() and transition()  *)
(* run their bodies under the Player's RLock, so each public call is one  *)
(* atomic action here.  The fade workers they spawn (fade_in_volume and   *)
(* crossfade) are daemon threads that write channel volumes WITHOUT the   *)
(* lock; a worker runs one loop iteration, sleeps, and runs the next.     *)
(* Each iteration (the pygame calls between two time.sleep calls) is one  *)
(* action, and the workers interleave freely with the public calls and    *)
(* with each other (fade durations are call parameters, so no worker is   *)
(* guaranteed to outrun another).                                         *)
(*                                                                         *)
(* pygame itself is not part of the repository; the model uses its        *)
(* documented behaviour: Channel.play resets the channel volume to full,  *)
(* pygame.mixer.stop() and quit() stop every channel, and a Channel call  *)
(* made after pygame.mixer.quit() raises pygame.error.                    *)
(*                                                                         *)
(* Volumes are kept as the numerator i of i/steps, so 1.0 is Steps and    *)
(* 1.0 - i/steps is Steps - i.                                            *)
(***************************************************************************)
EXTENDS Integers, FiniteSets, Sequences, Bags, TLC

\* ------------------------------------------------------------------ bounds
\* number of volume steps of a fade (the code uses steps = 100)
Steps == 2
\* fade workers that may be alive at the same time
MaxThreads == 2

\* ----------------------------------------------------------------- inputs
None == "None"
\* files of .audio/ that exist and decode
GoodSounds == {"rain.wav", "wind.wav"}
\* a name with no file in .audio/ : _get_audio_path raises FileNotFoundError
MissingSound == "missing.wav"
\* a file that exists but pygame.mixer.Sound cannot decode (pygame.error)
CorruptSound == "corrupt.wav"
Sounds == GoodSounds \cup {MissingSound, CorruptSound}
Channels == {0, 1}

VARIABLES
    playing,      \* Player._playing
    initialized,  \* Player._initialized (the pygame mixer is up)
    cur,          \* Player._current_channel
    nxt,          \* Player._next_channel
    isTrans,      \* Player._is_transitioning
    chan,         \* pygame channel state: busy, the sound it loops, volume
    threads,      \* bag of live fade workers
    last          \* the most recent public call and its outcome

vars == <<playing, initialized, cur, nxt, isTrans, chan, threads, last>>

\* ------------------------------------------------- the other components
\* Each component of the repository has its own state and its own
\* specification; a specification leaves the state of the others alone.

\* src/src/player/src/app/player.py (class LayerManager and the pygame pool)
VARIABLES
    pool,                  \* what each pygame mixer channel is doing
    active_channels,       \* LayerManager.active_channels
    instrumental_channel,  \* LayerManager.instrumental_channel
    fading,                \* the Channel.fadeout(6000) calls still running
    skipped                \* soundscape layers the latest transition loaded
                           \* and did not start

layerVars == <<pool, active_channels, instrumental_channel, fading, skipped>>

\* channels of the pygame pool (the code asks for 16:
\* pygame.mixer.set_num_channels(16))
NumChannels == 3
PoolChannels == 0..(NumChannels - 1)
\* None where the code holds a Channel or None
NoChannel == -1

\* LayerManager.__init__ on a pool in which nothing plays
LayerInit ==
    /\ pool = [c \in PoolChannels |-> "free"]
    /\ active_channels = <<>>
    /\ instrumental_channel = NoChannel
    /\ fading = <<>>
    /\ skipped = 0

\* the three control loops that fetch a layer-set and apply it:
\* poll_sound (src/src/model/tasks/update.py), the terminal player's main
\* (src/src/player/src/main.py), cosound_loop (src/src/V3/player/src/main.py)
VARIABLES
    loopAt,   \* where each loop is: "poll", "sleep", or how it was left
    cycles,   \* poll cycles each loop has begun
    errors,   \* poll cycles of each loop in which an error was raised
    running   \* the GUI player's running flag

pollVars == <<loopAt, cycles, errors, running>>

Pollers == {"poll_sound", "main", "cosound_loop"}

\* each loop is about to make its first poll; the GUI sets running = True
\* before it starts cosound_loop
PollInit ==
    /\ loopAt = [p \in Pollers |-> "poll"]
    /\ cycles = [p \in Pollers |-> 0]
    /\ errors = [p \in Pollers |-> 0]
    /\ running = TRUE

\* the backend's predictors: refresh_player and predict_cosound
\* (src/src/server/src/app), random_cosound and predictor_v1
\* (src/src/V3/server admin/src)
VARIABLES
    now,        \* the backend's clock
    votes,      \* the timestamps of the votes cast for the player
    library,    \* how many sounds of each type the player's library holds
    cosound,    \* Player.cosound, the layer-set refresh_player stores
    v3playing   \* Player.playing, the Cosound the V3 predictors store

predictVars == <<now, votes, library, cosound, v3playing>>

\* no timestamp: None, or a key that is absent
NoTime == 0

\* a player without sounds, votes or predictions: cosound holds nothing,
\* playing is the default Cosound() with no layers
PredictInit ==
    /\ now = 1
    /\ votes = {}
    /\ library = [Soundscape |-> 0, Instrumental |-> 0]
    /\ cosound = [soundscapes |-> <<>>, instrumental |-> <<>>, timestamp |-> NoTime]
    /\ v3playing = [layers |-> <<>>, created_at |-> 0]

\* how often pygame.mixer.Sound(path) has opened and decoded each sound's
\* file for the Player
VARIABLES storageReads

\* the files that exist under .audio/
StoredSounds == GoodSounds \cup {CorruptSound}

LoadInit == storageReads = [s \in StoredSounds |-> 0]

\* who holds Player._lock (threading.RLock): nobody, the thread that makes
\* the public calls, or a crossfade thread at the end of its fade
VARIABLES lock

Free == [kind |-> "free"]
Control == [kind |-> "control"]

LockInit == lock = Free

\* the looping prototype (model/main.py): playing["buffer"] as its length in
\* frames, playing["pos"], and the block the last callback filled
VARIABLES buffer, pos, outdata

cbVars == <<buffer, pos, outdata>>

\* playing["buffer"] is None
NoBuffer == 0

CallbackInit ==
    /\ buffer = NoBuffer
    /\ pos = 0
    /\ outdata = <<>>

\* where the player service (V1 Original/player/main.py) is: at startup,
\* or in poll_sound at its check, awaiting request_sound, or asleep; or shut
\* down
VARIABLES pollAt

ServiceInit == pollAt = "startup"

\* the Bluetooth presence service (server-bt-django): the row of one
\* registered device in test_bt_devices, the cleanup job's position, and the
\* status each device_detected request in progress has read
VARIABLES status, graceEnds, lastSeen, cleanupAt, cleanupHas, detecting

btVars == <<status, graceEnds, lastSeen, cleanupAt, cleanupHas, detecting>>

\* device_detected requests the server handles at the same time
MaxDetections == 2
Detections == 1..MaxDetections

\* register_device has inserted the row: connected, seen now, no grace period
BluetoothInit ==
    /\ status = "connected"
    /\ graceEnds = "null"
    /\ lastSeen = "fresh"
    /\ cleanupAt = "idle"
    /\ cleanupHas = FALSE
    /\ detecting = [h \in Detections |-> "idle"]

\* device registration: the rows of test_bt_devices, and every
\* register_device request with its arguments, position and result
VARIABLES rows, registering

regVars == <<rows, registering>>

\* register_device requests made
MaxRequests == 2
Requests == 1..MaxRequests

NotStarted == [at |-> "idle", user_id |-> "", device_mac |-> "", result |-> ""]

RegisterInit ==
    /\ rows = <<>>
    /\ registering = [r \in Requests |-> NotStarted]

\* the GUI player (V3/player/src/main.py): login_state["mode"], the running
\* flag, and the position of the cosound_loop task each completed login
\* has started
VARIABLES guiMode, guiRunning, loops

guiVars == <<guiMode, guiRunning, loops>>

\* logins completed in one session
MaxLogins == 3
Logins == 1..MaxLogins

GuiInit ==
    /\ guiMode = "command"
    /\ guiRunning = FALSE
    /\ loops = [l \in Logins |-> "none"]

otherVars == <<layerVars, pollVars, predictVars, storageReads, lock, cbVars, pollAt, btVars, regVars, guiVars>>
OtherInit == LayerInit /\ PollInit /\ PredictInit /\ LoadInit /\ LockInit /\ CallbackInit /\ ServiceInit /\ BluetoothInit /\ RegisterInit /\ GuiInit

\* ------------------------------------------------------------ pygame mixer
\* a channel of a freshly initialised mixer: idle, at full volume
FreshChannel == [busy |-> FALSE, sound |-> None, vol |-> Steps]
FreshChannels == [c \in Channels |-> FreshChannel]

\* pygame.mixer.stop(): every channel stops.  A channel that is not playing
\* contributes nothing to the output and Channel.play resets the volume, so
\* the volume of an idle channel is kept at the value play will reset it to
MixerStop(ch) == FreshChannels

\* Channel.play(sound, loops=-1): the channel loops the sound; pygame resets
\* the channel volume to full when a channel starts to play
ChannelPlay(ch, c, s) == [ch EXCEPT ![c] = [busy |-> TRUE, sound |-> s, vol |-> Steps]]

\* Channel.set_volume(v); on an idle channel the write is never heard (above)
SetVolume(ch, c, v) == IF ch[c].busy THEN [ch EXCEPT ![c].vol = v] ELSE ch

\* ----------------------------------------------------------- fade workers
\* volume = i / steps
FadeInVolume(i) == i
\* 1.0 - progress
FadeOutVolume(i) == Steps - i

\* a worker: fade_in_volume drives channel nc; crossfade fades cc out and nc in
\* i is the index of the loop iteration it runs next; a crossfade worker that
\* has left its loop is at i = Steps + 1
Thread(kind, cc, nc, i) == [kind |-> kind, cc |-> cc, nc |-> nc, i |-> i]
NewFadeIn(c) == Thread("fade_in", c, c, 0)
NewCrossfade(cc, nc) == Thread("crossfade", cc, nc, 0)

Live == BagToSet(threads)
NumThreads == BagCardinality(threads)
Without(t) == threads (-) SetToBag({t})
Replace(t, u) == (threads (-) SetToBag({t})) (+) SetToBag({u})

\* ------------------------------------------------------------------- calls
\* `last` remembers how the most recent public call ended:
\*   "none"      no call yet
\*   "started"   play started a sound          "restarted" ... the playing sound
\*   "same"      transition to the playing sound, not forced: continues
\*   "dropped"   transition while a transition is in progress
\*   "admitted"  transition started a crossfade "forced"   ... to the playing sound
\*   "failed"    the call raised and was logged "stopped"   stop
Outcomes == {"none", "started", "restarted", "same", "dropped", "admitted",
             "forced", "failed", "stopped"}

\* nothing sounds and nothing is reported: the scheduler's Idle state
Idle == playing = None /\ ~isTrans /\ \A c \in Channels : ~chan[c].busy

\* the same-sound test with the force flag inverted
SameSoundOnlyWhenForced(sound, force) == sound = playing /\ force

\* if sound == self._playing and not force
SameSoundContinues(sound, force) == sound = playing /\ ~force

\* the overlap guard left out
NoOverlapGuard == FALSE

\* if self._is_transitioning
TransitionInProgress == isTrans

\* the playing name left for the end of the crossfade to update
PlayingKeptDuringFade(sound) == playing

\* self._playing = sound (transition)
PlayingAfterTransition(sound) == sound

Init ==
    /\ playing = None
    /\ initialized = FALSE
    /\ cur = 0
    /\ nxt = 1
    /\ isTrans = FALSE
    /\ chan = FreshChannels
    /\ threads = EmptyBag
    /\ last = "none"
    /\ OtherInit

\* ------------------------------------------------------------ Player.play
\* play that returns early when the sound is already the playing one
PlayChannelsIdempotent(sound, fade_in) ==
    IF sound = playing THEN chan
    ELSE LET started == ChannelPlay(MixerStop(chan), cur, sound)
         IN  IF fade_in THEN started ELSE SetVolume(started, cur, Steps)

\* channels after a successful play: pygame.mixer.stop(), then the sound
\* loops on the current channel; without fade-in the volume is set to 1.0
PlayChannels(sound, fade_in) ==
    LET started == ChannelPlay(MixerStop(chan), cur, sound)
    IN  IF fade_in THEN started ELSE SetVolume(started, cur, Steps)

\* threading.Thread(target=fade_in_volume).start() when fade_in
PlayThreads(fade_in) ==
    IF fade_in THEN threads (+) SetToBag({NewFadeIn(cur)}) ELSE threads

\* mixerOk: whether pygame.mixer.init() succeeds if _ensure_mixer has to call it
Play(sound, fade_in, mixerOk) ==
    /\ IF ~(initialized \/ mixerOk) THEN
            \* _ensure_mixer re-raises pygame.error; caught and logged
            /\ last' = "failed"
            /\ UNCHANGED <<playing, initialized, cur, nxt, isTrans, chan, threads>>
       ELSE IF sound = MissingSound THEN
            \* _get_audio_path raises before the lock is taken
            /\ initialized' = TRUE
            /\ last' = "failed"
            /\ UNCHANGED <<playing, cur, nxt, isTrans, chan, threads>>
       ELSE IF sound = CorruptSound THEN
            \* pygame.mixer.Sound raises after pygame.mixer.stop() has run
            /\ initialized' = TRUE
            /\ chan' = MixerStop(chan)
            /\ last' = "failed"
            /\ UNCHANGED <<playing, cur, nxt, isTrans, threads>>
       ELSE
            /\ fade_in => NumThreads < MaxThreads
            /\ initialized' = TRUE
            /\ chan' = PlayChannels(sound, fade_in)
            /\ threads' = PlayThreads(fade_in)
            /\ playing' = sound
            /\ last' = (IF sound = playing THEN "restarted" ELSE "started")
            /\ UNCHANGED <<cur, nxt, isTrans>>

\* ------------------------------------------------------ Player.transition
\* next_channel.play(new_sound, loops=-1); next_channel.set_volume(0.0)
TransitionChannels(sound) == SetVolume(ChannelPlay(chan, nxt, sound), nxt, 0)

Transition(sound, force, mixerOk) ==
    /\ IF ~(initialized \/ mixerOk) THEN
            \* except Exception: self._is_transitioning = False
            /\ isTrans' = FALSE
            /\ last' = "failed"
            /\ UNCHANGED <<playing, initialized, cur, nxt, chan, threads>>
       ELSE IF sound = MissingSound THEN
            /\ initialized' = TRUE
            /\ isTrans' = FALSE
            /\ last' = "failed"
            /\ UNCHANGED <<playing, cur, nxt, chan, threads>>
       ELSE IF SameSoundContinues(sound, force) THEN
            /\ initialized' = TRUE
            /\ last' = "same"
            /\ UNCHANGED <<playing, cur, nxt, isTrans, chan, threads>>
       ELSE IF TransitionInProgress THEN
            /\ initialized' = TRUE
            /\ last' = "dropped"
            /\ UNCHANGED <<playing, cur, nxt, isTrans, chan, threads>>
       ELSE IF sound = CorruptSound THEN
            /\ initialized' = TRUE
            /\ isTrans' = FALSE
            /\ last' = "failed"
            /\ UNCHANGED <<playing, cur, nxt, chan, threads>>
       ELSE
            /\ NumThreads < MaxThreads
            /\ initialized' = TRUE
            /\ isTrans' = TRUE
            /\ chan' = TransitionChannels(sound)
            /\ threads' = threads (+) SetToBag({NewCrossfade(cur, nxt)})
            /\ cur' = nxt
            /\ nxt' = cur
            /\ playing' = PlayingAfterTransition(sound)
            /\ last' = (IF sound = playing THEN "forced" ELSE "admitted")

\* ------------------------------------------------------------ Player.stop
Stop ==
    /\ playing' = None
    /\ IF initialized
         THEN \* pygame.mixer.stop(); pygame.mixer.quit()
              /\ chan' = FreshChannels
              /\ initialized' = FALSE
         ELSE UNCHANGED <<chan, initialized>>
    /\ last' = "stopped"
    /\ UNCHANGED <<cur, nxt, isTrans, threads>>

\* ------------------------------------------------- fade_in_volume (thread)
\* one iteration of `for i in range(steps + 1)`: channel.set_volume(i / steps).
\* A pygame call on a mixer that has been quit raises pygame.error, which
\* ends the thread.
FadeInStep(t) ==
    /\ t \in Live
    /\ t.kind = "fade_in"
    /\ IF ~initialized THEN
            /\ threads' = Without(t)
            /\ UNCHANGED chan
       ELSE
            /\ chan' = SetVolume(chan, t.nc, FadeInVolume(t.i))
            /\ threads' = IF t.i = Steps THEN Without(t)
                          ELSE Replace(t, [t EXCEPT !.i = t.i + 1])
    /\ UNCHANGED <<playing, initialized, cur, nxt, isTrans, last>>

\* ------------------------------------------------------ crossfade (thread)
\* one iteration of the crossfade loop:
\*   if current_channel.get_busy(): current_channel.set_volume(1.0 - progress)
\*   next_channel.set_volume(progress)
CrossfadeVolumes(t) ==
    LET out == IF chan[t.cc].busy
                 THEN SetVolume(chan, t.cc, FadeOutVolume(t.i))
                 ELSE chan
    IN  SetVolume(out, t.nc, FadeInVolume(t.i))

\* after the loop: current_channel.set_volume(0.0); next_channel.set_volume(1.0)
CrossfadeEndVolumes(t) == SetVolume(SetVolume(chan, t.cc, 0), t.nc, Steps)

CrossfadeStep(t) ==
    /\ t \in Live
    /\ t.kind = "crossfade"
    /\ IF ~initialized THEN
            \* pygame.error ends the thread; the flag is not cleared
            /\ threads' = Without(t)
            /\ UNCHANGED <<chan, isTrans>>
       ELSE IF t.i <= Steps THEN
            /\ chan' = CrossfadeVolumes(t)
            /\ threads' = Replace(t, [t EXCEPT !.i = t.i + 1])
            /\ UNCHANGED isTrans
       ELSE
            \* ... with self._lock: self._is_transitioning = False
            /\ chan' = CrossfadeEndVolumes(t)
            /\ isTrans' = FALSE
            /\ threads' = Without(t)
    /\ UNCHANGED <<playing, initialized, cur, nxt, last>>

\* --------------------------------------------------------------- queries
\* get_playing(): with self._lock: return self._playing
GetPlaying == playing
\* is_transitioning(): with self._lock: return self._is_transitioning
IsTransitioning == isTrans

\* ------------------------------------------------------------ specification
\* every value a worker record can take
ThreadValues ==
    LET started ==
    {NewFadeIn(c) : c \in Channels} \cup {NewCrossfade(c, 1 - c) : c \in Channels}
    IN  {[t EXCEPT !.i = j] : t \in started, j \in 0..(Steps + 1)}

\* _ensure_mixer calls pygame.mixer.init() only when the mixer is not up
MixerOutcomes == IF initialized THEN {TRUE} ELSE BOOLEAN

PlayCall == \E s \in Sounds, f \in BOOLEAN, ok \in MixerOutcomes : Play(s, f, ok)
TransitionCall == \E s \in Sounds, f \in BOOLEAN, ok \in MixerOutcomes : Transition(s, f, ok)
FadeInWorker == \E t \in Live : FadeInStep(t)
CrossfadeWorker == \E t \in Live : CrossfadeStep(t)
WorkerStep == FadeInWorker \/ CrossfadeWorker

Next ==
    \/ PlayCall /\ UNCHANGED otherVars
    \/ TransitionCall /\ UNCHANGED otherVars
    \/ Stop /\ UNCHANGED otherVars
    \/ FadeInWorker /\ UNCHANGED otherVars
    \/ CrossfadeWorker /\ UNCHANGED otherVars

Spec == Init /\ [][Next]_vars

TypeOK ==
    /\ playing \in GoodSounds \cup {None}
    /\ initialized \in BOOLEAN
    /\ cur \in Channels /\ nxt \in Channels
    /\ isTrans \in BOOLEAN
    /\ \A c \in Channels : chan[c].vol \in 0..Steps /\ chan[c].sound \in GoodSounds \cup {None}
    /\ BagToSet(threads) \subseteq ThreadValues
    /\ NumThreads <= MaxThreads
    /\ last \in Outcomes

\* ================================================================= claims
\* the sound that is reported is looping on the current channel
CurrentCarriesPlaying == chan[cur].busy /\ chan[cur].sound = GetPlaying

\* C1: transition(X) with force=false while X is the playing sound changes
\* nothing: playing name, transitioning flag, channel roles, channel state
\* (sounds and volumes) and the set of fade workers are as before the call.
C1_SameSoundIsNoOp ==
    [][\A s \in Sounds, ok \in MixerOutcomes :
          (s = GetPlaying /\ Transition(s, FALSE, ok))
             => UNCHANGED <<playing, isTrans, cur, nxt, chan, threads, initialized>>]_vars

\* transition(X) was repeated while the crossfade admitted for X still runs
C1_Witness ==
    /\ last = "same"
    /\ IsTransitioning
    /\ CurrentCarriesPlaying
    /\ \E t \in Live : t.kind = "crossfade" /\ t.nc = cur

\* C2: a transition call made while a crossfade is in progress starts no
\* sound and no worker and leaves the playing name and the channel roles as
\* they are; the workers never change the playing name, so it is still the
\* first transition's target when the crossfade completes.
C2_OverlappingRequestDropped ==
    [][/\ \A s \in Sounds, f \in BOOLEAN, ok \in MixerOutcomes :
            (IsTransitioning /\ Transition(s, f, ok))
               => UNCHANGED <<playing, cur, nxt, threads, chan>>
       /\ ~(UNCHANGED <<playing, cur, nxt>>) => ~WorkerStep]_vars

\* a request was dropped and the crossfade it ran into has since completed
C2_Witness ==
    /\ last = "dropped"
    /\ ~IsTransitioning
    /\ threads = EmptyBag
    /\ CurrentCarriesPlaying
    /\ chan[cur].vol = Steps

\* C3: at most one fade worker (fade-in or crossfade) is alive at any time.
C3_AtMostOneWorker == NumThreads <= 1

\* the call is admitted: the mixer comes up, the file decodes, the sound
\* differs from the playing one or force is set, no transition is in progress
Admitted(s, f, ok) ==
    /\ ok
    /\ s \in GoodSounds
    /\ s # playing \/ f
    /\ ~isTrans

\* C4: when transition(Y) is admitted, get_playing() is Y as soon as the call
\* returns, while is_transitioning() is true and the crossfade worker has
\* not yet run.
C4_PlayingIsTargetAtOnce ==
    [][\A s \in Sounds, f \in BOOLEAN, ok \in MixerOutcomes :
          (Admitted(s, f, ok) /\ Transition(s, f, ok))
             => /\ GetPlaying' = s
                /\ IsTransitioning'
                /\ NewCrossfade(cur, nxt) \in BagToSet(threads')]_vars

\* right after an admitted transition: the new sound is reported while its
\* channel is still at volume 0 and the old sound is still at full volume
C4_Witness ==
    /\ last = "admitted"
    /\ IsTransitioning
    /\ CurrentCarriesPlaying
    /\ chan[cur].vol = 0
    /\ chan[nxt].busy /\ chan[nxt].sound # GetPlaying /\ chan[nxt].vol = Steps
    /\ NewCrossfade(nxt, cur) \in Live

\* what a channel contributes to the output: its volume while it plays
TrackVolume(c) == IF chan[c].busy THEN chan[c].vol ELSE 0

\* the playing sound is at full volume and nothing else is audible
OnlyPlayingAudible ==
    /\ CurrentCarriesPlaying
    /\ chan[cur].vol = Steps
    /\ TrackVolume(nxt) = 0

\* C5 (safety part): once the crossfade of an admitted transition has
\* completed (is_transitioning() is false again, no crossfade worker is
\* left) and no call was made since, the only track still audible is the
\* target, at full volume.
C5_CompletedLeavesOnlyTarget ==
    (/\ last \in {"admitted", "forced"}
     /\ ~IsTransitioning
     /\ \A t \in Live : t.kind # "crossfade") => OnlyPlayingAudible

\* C6: after stop() the player is Idle: nothing plays, get_playing() is None
\* and is_transitioning() is false.
C6_StopLeavesIdle ==
    last = "stopped" =>
        /\ GetPlaying = None
        /\ ~IsTransitioning
        /\ \A c \in Channels : ~chan[c].busy

\* C7 (as claimed): play(X) while X is the playing sound leaves the channels
\* and the fade workers as they are.
C7_PlaySameIsNoOp ==
    [][\A s \in Sounds, f \in BOOLEAN, ok \in MixerOutcomes :
          (s = GetPlaying /\ Play(s, f, ok)) => UNCHANGED <<chan, threads>>]_vars

\* C7 (amended): play(X) while X is the playing sound restarts X: every
\* channel is stopped, X starts again on the current channel at full channel
\* volume, with fade_in a new fade-in worker is started, and only the playing
\* name and the channel roles stay as they are.
C7_PlaySameRestarts ==
    [][\A s \in Sounds, f \in BOOLEAN, ok \in MixerOutcomes :
          (s = GetPlaying /\ Play(s, f, ok))
             => /\ UNCHANGED <<playing, cur, nxt, isTrans>>
                /\ chan'[cur] = [busy |-> TRUE, sound |-> s, vol |-> Steps]
                /\ ~chan'[nxt].busy
                /\ threads' = IF f THEN threads (+) SetToBag({NewFadeIn(cur)})
                                   ELSE threads]_vars

\* play(X) was repeated during X's fade-in: X was restarted at full channel
\* volume and two fade-in workers now drive its channel
C7_Witness ==
    /\ last = "restarted"
    /\ CurrentCarriesPlaying
    /\ \E t \in Live : t.kind = "fade_in" /\ t.nc = cur /\ t.i > 0
    /\ NewFadeIn(cur) \in Live

\* C8 (safety part): play(X, fade_in=True) from Idle leaves exactly one
\* active track, X, faded in by exactly one worker.
C8_PlayFromIdleOneFade ==
    [][\A s \in GoodSounds, ok \in MixerOutcomes :
          (Idle /\ ok /\ Play(s, TRUE, ok))
             => /\ chan'[cur].busy /\ chan'[cur].sound = s
                /\ ~chan'[nxt].busy
                /\ threads' = SetToBag({NewFadeIn(cur)})]_vars

\* a worker that has already written a volume is fading channel c in / out
FadingIn(c) == \E t \in Live : t.nc = c /\ t.i >= 1
FadingOut(c) == \E t \in Live : t.kind = "crossfade" /\ t.cc = c /\ t.i >= 1

\* C9: every volume a worker writes is within [0, 1], and while a channel is
\* being faded in its volume never decreases, while it is being faded out
\* its volume never increases.
C9_EnvelopeMonotonic ==
    [][WorkerStep =>
          \A c \in Channels :
             /\ chan'[c].vol \in 0..Steps
             /\ FadingIn(c) => chan'[c].vol >= chan[c].vol
             /\ FadingOut(c) => chan'[c].vol <= chan[c].vol]_vars

\* C10: during the crossfade of a forced transition to the playing sound the
\* volumes of the outgoing and the incoming track add up to at most 1.
C10_SelfCrossfadeSum ==
    (last = "forced" /\ IsTransitioning) => TrackVolume(nxt) + TrackVolume(cur) <= Steps


\* =========================================================== LayerManager
\* src/src/player/src/app/player.py.  A layer-set is a list of soundscape
\* layers and a list of instrumental layers; transition() fades out what
\* it started before and starts the new layers on free channels of the
\* pygame pool.  The model keeps, per channel, what it is doing:
\*   "free"     nothing plays (Channel.get_busy() is False)
\*   "loop"     a soundscape started with loops=-1
\*   "fadeout"  Channel.fadeout(6000) is running; the channel stays busy
\*              until the fade ends
\*   "once"     an instrumental started with loops=0
\* Gains and sound ids are not kept: no branch of transition() reads them.

\* ------------------------------------------------------------------ bounds
\* soundscape layers in one layer-set
MaxLayers == 2
\* instrumental layers in one layer-set (predictor_v1 can store several)
MaxInstrumentals == 2

\* ------------------------------------------------------------------ inputs
\* a layer whose id is in the manifest and whose file decodes; one whose id
\* is not in the manifest (manifest[sound_id] raises KeyError); one whose
\* file pygame.mixer.Sound cannot decode (pygame.error)
LayerKinds == {"good", "missing", "corrupt"}

\* the layers of a list that cannot be loaded
BadLayers(l) == {i \in 1..Len(l) : l[i] # "good"}

\* lists of at most n layers of which at most one cannot be loaded
LayerLists(n) ==
    UNION {{l \in [1..k -> LayerKinds] : Cardinality(BadLayers(l)) <= 1} : k \in 0..n}

\* --------------------------------------------------------- the pygame pool
Busy(p, c) == p[c] # "free"

FreeChannels(p) == {c \in PoolChannels : ~Busy(p, c)}

\* find_channel(force=True): a busy channel is handed out when none is free
FindChannelForced(p) ==
    IF \A c \in PoolChannels : Busy(p, c) THEN 0
    ELSE CHOOSE c \in PoolChannels : ~Busy(p, c) /\ \A d \in 0..(c - 1) : Busy(p, d)

\* pygame.mixer.find_channel(): the first channel that is not busy, None
\* when every channel is busy
FindChannel(p) ==
    IF \A c \in PoolChannels : Busy(p, c) THEN NoChannel
    ELSE CHOOSE c \in PoolChannels : ~Busy(p, c) /\ \A d \in 0..(c - 1) : Busy(p, d)

\* channel == self.instrumental_channel.  find_channel() returns a new
\* Channel object for a channel number; whether two Channel objects of one
\* number compare equal is up to the pygame build (byNumber).  None equals
\* only None.
ChannelsEqual(channel, reserved, byNumber) ==
    IF channel = NoChannel THEN reserved = NoChannel
    ELSE reserved # NoChannel /\ channel = reserved /\ byNumber

\* ------------------------------------------------- LayerManager.transition
\* the manager and the pool while transition() runs, and the exception that
\* ended it
Running == [pool |-> pool, active |-> active_channels,
            inst |-> instrumental_channel, fading |-> fading,
            skipped |-> 0, err |-> "none"]

\* the channels of a list of channels
ChannelsOf(list) == {list[i] : i \in 1..Len(list)}

\* ch.fadeout(6000)
FadeoutMs == 6000

\* the fade-out sweep without the reset of the list
FadeoutKeepsActive(m) ==
    [m EXCEPT !.pool = [c \in PoolChannels |->
                          IF c \in ChannelsOf(m.active) THEN "fadeout" ELSE m.pool[c]],
              !.fading = IF m.active = <<>> THEN @
                         ELSE Append(@, [channels |-> ChannelsOf(m.active),
                                         ms |-> FadeoutMs])]

\* for ch in self.active_channels: ch.fadeout(6000); self.active_channels = []
FadeoutActive(m) ==
    [m EXCEPT !.pool = [c \in PoolChannels |->
                          IF c \in ChannelsOf(m.active) THEN "fadeout" ELSE m.pool[c]],
              !.fading = IF m.active = <<>> THEN @
                         ELSE Append(@, [channels |-> ChannelsOf(m.active),
                                         ms |-> FadeoutMs]),
              !.active = <<>>]

\* if self.instrumental_channel is not None and not ...get_busy(): ... = None
ForgetFinished(m) ==
    IF m.inst # NoChannel /\ ~Busy(m.pool, m.inst)
    THEN [m EXCEPT !.inst = NoChannel] ELSE m

\* the mixer thread reaches the end of the one-shot on the reserved channel
\* while transition() is running
OneShotOver(m) ==
    IF m.inst # NoChannel /\ m.pool[m.inst] = "once"
    THEN [m EXCEPT !.pool[m.inst] = "free"] ELSE m

\* lines 46-47: if channel == self.instrumental_channel: look again
SecondLook(m, channel, byNumber) ==
    IF ChannelsEqual(channel, m.inst, byNumber) THEN FindChannel(m.pool) ELSE channel

\* lines 48-51
PlayLoop(m, channel, byNumber) ==
    IF channel # NoChannel /\ ~ChannelsEqual(channel, m.inst, byNumber)
    THEN [m EXCEPT !.pool[channel] = "loop", !.active = Append(@, channel)]
    ELSE [m EXCEPT !.skipped = @ + 1]

\* lines 44-51, for a layer that loaded
StartSoundscape(m, byNumber) ==
    PlayLoop(m, SecondLook(m, FindChannel(m.pool), byNumber), byNumber)

\* what loading a layer raises
LoadError(kind) ==
    IF kind = "missing" THEN "KeyError"
    ELSE IF kind = "corrupt" THEN "pygame.error" ELSE "none"

\* for soundscape in soundscapes: ... ; an exception leaves the loop
RECURSIVE ProcessSoundscapes(_, _, _, _)
ProcessSoundscapes(m, soundscapes, i, byNumber) ==
    IF i > Len(soundscapes) THEN m
    ELSE IF soundscapes[i] # "good"
         THEN [m EXCEPT !.err = LoadError(soundscapes[i])]
         ELSE ProcessSoundscapes(StartSoundscape(m, byNumber), soundscapes, i + 1, byNumber)

\* lines 65-68
PlayOnce(m, channel) ==
    IF channel # NoChannel
    THEN [m EXCEPT !.pool[channel] = "once", !.inst = channel]
    ELSE m

\* lines 64-68, for a layer that loaded
StartInstrumental(m) == PlayOnce(m, FindChannel(m.pool))

\* for inst in instrumental: ...
RECURSIVE StartInstrumentals(_, _, _)
StartInstrumentals(m, instrumental, i) ==
    IF i > Len(instrumental) THEN m
    ELSE IF instrumental[i] # "good"
         THEN [m EXCEPT !.err = LoadError(instrumental[i])]
         ELSE StartInstrumentals(StartInstrumental(m), instrumental, i + 1)

\* if self.instrumental_channel is None or not ...get_busy():
NoInstrumentalPlaying(m) == m.inst = NoChannel \/ ~Busy(m.pool, m.inst)

\* lines 53-68
ProcessInstrumentals(m, instrumental) ==
    IF NoInstrumentalPlaying(m)
    THEN StartInstrumentals([m EXCEPT !.inst = NoChannel], instrumental, 1)
    ELSE m

\* the manager when the soundscape loop is entered; ends = 1: the reserved
\* one-shot ended after the check of lines 32-36
BeforeSoundscapes(ends) ==
    IF ends = 1 THEN OneShotOver(ForgetFinished(FadeoutActive(Running)))
    ELSE ForgetFinished(FadeoutActive(Running))

\* the manager when the soundscape loop is left; ends = 2: the reserved
\* one-shot ended while the soundscapes were being started
AfterSoundscapes(soundscapes, ends, byNumber) ==
    IF ends = 2
    THEN OneShotOver(ProcessSoundscapes(BeforeSoundscapes(ends), soundscapes, 1, byNumber))
    ELSE ProcessSoundscapes(BeforeSoundscapes(ends), soundscapes, 1, byNumber)

\* an exception in the soundscape loop leaves transition() at once
InstrumentalsIfReached(m, instrumental) ==
    IF m.err # "none" THEN m ELSE ProcessInstrumentals(m, instrumental)

\* the manager when transition() is left
AfterTransition(soundscapes, instrumental, ends, byNumber) ==
    InstrumentalsIfReached(AfterSoundscapes(soundscapes, ends, byNumber), instrumental)

LayerTransition(soundscapes, instrumental, manifestOk, ends, byNumber) ==
    /\ IF ~manifestOk
         THEN \* open(MANIFEST_PATH) or json.load raises before anything is done
              /\ skipped' = 0
              /\ UNCHANGED <<pool, active_channels, instrumental_channel, fading>>
         ELSE \E m \in {AfterTransition(soundscapes, instrumental, ends, byNumber)} :
                  /\ pool' = m.pool
                  /\ active_channels' = m.active
                  /\ instrumental_channel' = m.inst
                  /\ skipped' = m.skipped
                  /\ fading' = m.fading

\* the fade-outs of the oldest transition reach silence: pygame stops the
\* channels
FadeoutEnds ==
    /\ fading # <<>>
    /\ pool' = [c \in PoolChannels |->
                  IF c \in Head(fading).channels THEN "free" ELSE pool[c]]
    /\ fading' = Tail(fading)
    /\ UNCHANGED <<active_channels, instrumental_channel, skipped>>

\* a one-shot (loops=0) reaches its end
OneShotEnds(c) ==
    /\ pool[c] = "once"
    /\ pool' = [pool EXCEPT ![c] = "free"]
    /\ UNCHANGED <<active_channels, instrumental_channel, fading, skipped>>

\* ----------------------------------------------------------- specification
\* the reserved one-shot can only end during a call while it is playing
EndsOutcomes ==
    IF instrumental_channel # NoChannel /\ pool[instrumental_channel] = "once"
    THEN {0, 1, 2} ELSE {0}
\* the comparison of two Channel objects only matters once the reserved
\* channel was freed under the manager
EqualityOutcomes(ends) == IF ends = 1 THEN BOOLEAN ELSE {FALSE}

\* the layer-sets a transition is called with: soundscape layers and
\* instrumental layers, at most one layer of the set cannot be loaded
LayerSets ==
    {ls \in LayerLists(MaxLayers) \X LayerLists(MaxInstrumentals) :
        BadLayers(ls[1]) = {} \/ BadLayers(ls[2]) = {}}

\* without the manifest the layers are never looked at
LayerSetsRead(ok) == IF ok THEN LayerSets ELSE {<<<<>>, <<>>>>}

LayerTransitionCall ==
    \E ok \in BOOLEAN, e \in EndsOutcomes :
        \E ls \in LayerSetsRead(ok), b \in EqualityOutcomes(e) :
            LayerTransition(ls[1], ls[2], ok, e, b)

OneShotEnd == \E c \in PoolChannels : OneShotEnds(c)

\* the state of the other components
notLayerVars == <<vars, pollVars, predictVars, storageReads, lock, cbVars, pollAt, btVars, regVars, guiVars>>

LayerNext ==
    \/ LayerTransitionCall /\ UNCHANGED notLayerVars
    \/ FadeoutEnds /\ UNCHANGED notLayerVars
    \/ OneShotEnd /\ UNCHANGED notLayerVars

SpecLayers == Init /\ [][LayerNext]_layerVars

LayerTypeOK ==
    /\ pool \in [PoolChannels -> {"free", "loop", "fadeout", "once"}]
    /\ \A i \in 1..Len(active_channels) : active_channels[i] \in PoolChannels
    /\ instrumental_channel \in PoolChannels \cup {NoChannel}
    /\ \A i \in 1..Len(fading) :
          /\ fading[i].channels \subseteq PoolChannels
          /\ fading[i].channels # {}
          /\ \A c \in fading[i].channels : pool[c] = "fadeout"
    /\ skipped \in 0..MaxLayers

\* ---------------------------------------------------- LayerManager claims
\* the layers of a list that load
GoodLayers(l) == {i \in 1..Len(l) : l[i] = "good"}

\* one-shots that play from before a call until after it (ends # 0: the
\* reserved one-shot ends during the call)
PlayingThrough(ends) ==
    {c \in PoolChannels : pool[c] = "once" /\ (ends = 0 \/ c # instrumental_channel)}

\* channels on which the call that leads from the present state to m started
\* a one-shot
NewOneShots(m, ends) ==
    {c \in PoolChannels : m.pool[c] = "once" /\ c \notin PlayingThrough(ends)}

\* C11: a transition whose layers all load never raises, however few
\* channels are free: a soundscape layer is started exactly when a channel
\* is free for it (on a channel that was free, which then loops and is in
\* active_channels), every other layer is skipped and leaves no trace in the
\* manager, whose only state is active_channels and instrumental_channel
C11_ShortageNeverRaises ==
    \A ls \in LayerSets, e \in EndsOutcomes : \A b \in EqualityOutcomes(e) :
        (BadLayers(ls[1]) = {} /\ BadLayers(ls[2]) = {}) =>
            \A start \in {BeforeSoundscapes(e)},
               m \in {AfterTransition(ls[1], ls[2], e, b)} :
                \A free \in {Cardinality(FreeChannels(start.pool))} :
                    /\ m.err = "none"
                    /\ Len(m.active) <= free
                    /\ (e = 1 /\ b) \/ Len(m.active) = (IF Len(ls[1]) < free THEN Len(ls[1]) ELSE free)
                    /\ m.skipped = Len(ls[1]) - Len(m.active)
                    /\ \A c \in ChannelsOf(m.active) :
                          start.pool[c] = "free" /\ m.pool[c] = "loop"
                    /\ \A c \in PoolChannels \ ChannelsOf(m.active) :
                          \/ m.pool[c] = start.pool[c]
                          \/ m.pool[c] = "once"
                          \/ e = 2 /\ c = instrumental_channel

\* a transition found the pool exhausted: it started some layers, skipped
\* others, and no channel is free
C11_Witness ==
    /\ skipped > 0
    /\ active_channels # <<>>
    /\ instrumental_channel = NoChannel
    /\ FreeChannels(pool) = {}

\* C12: when transition returns, every channel that was in active_channels
\* is in a fade-out of 6000 ms, and active_channels holds exactly the
\* channels on which this call started a loop, none of the earlier ones
C12_FadeOldStartNew ==
    \A ls \in LayerSets, e \in EndsOutcomes : \A b \in EqualityOutcomes(e) :
        \A m \in {AfterTransition(ls[1], ls[2], e, b)} :
            m.err = "none" =>
                /\ \A c \in ChannelsOf(active_channels) :
                      /\ m.pool[c] = "fadeout"
                      /\ \E i \in 1..Len(m.fading) :
                            c \in m.fading[i].channels /\ m.fading[i].ms = FadeoutMs
                /\ ChannelsOf(m.active) = {c \in PoolChannels : m.pool[c] = "loop"}
                /\ ChannelsOf(m.active) \cap ChannelsOf(active_channels) = {}
                /\ Cardinality(ChannelsOf(m.active)) = Len(m.active)

\* a transition faded out the layers of the one before and started its own
C12_Witness ==
    /\ fading # <<>>
    /\ active_channels # <<>>
    /\ \A c \in ChannelsOf(active_channels) : pool[c] = "loop"

\* C13: a one-shot that plays through a transition is left alone (its
\* channel still plays it afterwards and carries no soundscape), and a
\* transition starts a new one-shot only when no other one-shot is playing
C13_OneShotUninterrupted ==
    \A ls \in LayerSets, e \in EndsOutcomes : \A b \in EqualityOutcomes(e) :
        \A m \in {AfterTransition(ls[1], ls[2], e, b)} :
            /\ \A c \in PlayingThrough(e) :
                  m.pool[c] = "once" /\ c \notin ChannelsOf(m.active)
            /\ NewOneShots(m, e) # {} =>
                  PlayingThrough(e) = {} /\ Cardinality(NewOneShots(m, e)) = 1

\* C14: a layer that cannot be loaded is the only one abandoned: every
\* soundscape layer that loads is started or finds no free channel, and an
\* instrumental layer that loads is started when no one-shot is playing and
\* a channel is free
C14_OnlyBadLayerAbandoned ==
    \A ls \in LayerSets, e \in EndsOutcomes : \A b \in EqualityOutcomes(e) :
        \A looped \in {AfterSoundscapes(ls[1], e, b)},
           m \in {AfterTransition(ls[1], ls[2], e, b)} :
            /\ Len(m.active) + m.skipped = Cardinality(GoodLayers(ls[1]))
            /\ (/\ GoodLayers(ls[2]) # {}
                /\ NoInstrumentalPlaying(looped)
                /\ FreeChannels(looped.pool) # {}) => NewOneShots(m, e) # {}

\* ------------------------------------------------- Player claims, continued
\* what is sounding and what the player reports about it
Sounding == <<playing, isTrans, cur, nxt, chan, threads>>

\* C15: play or transition of a sound whose file is missing or does not
\* decode leaves the playing name, the transitioning flag, the channel
\* roles, the channels and the fade workers as they were
C15_FailedRequestLeavesSounding ==
    [][\A s \in {MissingSound, CorruptSound}, f \in BOOLEAN :
          (last' = "failed" /\ (Play(s, f, TRUE) \/ Transition(s, f, TRUE)))
             => UNCHANGED Sounding]_vars

\* the scheduler's Steady state: a sound is reported, no crossfade is in
\* progress and no fade-in worker is still raising the volume
Steady ==
    /\ GetPlaying # None
    /\ ~IsTransitioning
    /\ \A t \in Live : t.kind # "fade_in"

\* C20: a crossfade is entered only from Steady: never from Idle and never
\* while the fade-in started by play is still running
C20_CrossfadeOnlyFromSteady ==
    [][\A s \in GoodSounds, f \in BOOLEAN, ok \in MixerOutcomes :
          (last' \in {"admitted", "forced"} /\ Admitted(s, f, ok) /\ Transition(s, f, ok))
             => Steady]_vars

\* ========================================================== control loops
\* Each loop polls the backend for the layer-set to play, applies it and
\* sleeps.  A poll cycle is one action: everything from the top of the loop
\* body to the sleep it ends in.  What the backend and the files do in a
\* cycle is an input of the cycle.

\* ------------------------------------------------------------------ bounds
\* poll cycles a loop makes
MaxCycles == 3

\* ------------------------------------------------------------------ inputs
\* a cycle in which nothing fails; the request to the backend fails; the
\* layer-set names a sound that is not on the device; a file of the
\* layer-set does not decode
CycleOutcomes == {"ok", "network", "unknown_id", "undecodable"}

\* ------------------------------------------------------------------- steps
\* the bookkeeping of a cycle that ends at `at`
CycleEnds(p, outcome, at) ==
    /\ cycles[p] < MaxCycles
    /\ loopAt[p] = "poll"
    /\ loopAt' = [loopAt EXCEPT ![p] = at]
    /\ cycles' = [cycles EXCEPT ![p] = @ + 1]
    /\ errors' = [errors EXCEPT ![p] = IF outcome = "ok" THEN @ ELSE @ + 1]
    /\ UNCHANGED running

\* poll_sound: the cycle is skipped while a transition is in progress;
\* request_sound catches its own errors and returns None, in which case
\* nothing is applied; Player.transition catches the errors of the file;
\* whatever else is raised in the body is caught by `except Exception`
\* (update.py:85-88) and the loop sleeps
PollSoundCycle(transitioning, outcome) ==
    CycleEnds("poll_sound", IF transitioning THEN "ok" ELSE outcome, "sleep")

\* polling_task.cancel() at shutdown: CancelledError is no Exception, it
\* leaves the loop
PollSoundCancelled ==
    /\ loopAt["poll_sound"] \in {"poll", "sleep"}
    /\ loopAt' = [loopAt EXCEPT !["poll_sound"] = "stopped"]
    /\ UNCHANGED <<cycles, errors, running>>

\* main: get_cosound raises on a failed request (raise_for_status, the
\* requests exceptions), LayerManager.transition raises KeyError or
\* pygame.error; the while loop has no try, so the exception leaves it
MainCycle(outcome) ==
    CycleEnds("main", outcome, IF outcome = "ok" THEN "sleep" ELSE "raised")

\* cosound_loop: `while running`; every Exception of the body is caught
\* (V3 main.py:192-195) and the loop sleeps 10 s instead of 120 s
CosoundLoopCycle(outcome) ==
    IF running
    THEN CycleEnds("cosound_loop", outcome, "sleep")
    ELSE /\ loopAt["cosound_loop"] = "poll"
         /\ loopAt' = [loopAt EXCEPT !["cosound_loop"] = "stopped"]
         /\ UNCHANGED <<cycles, errors, running>>

\* logout or window close: running = False
StopRunning ==
    /\ running
    /\ running' = FALSE
    /\ UNCHANGED <<loopAt, cycles, errors>>

\* the sleep at the end of a cycle returns
Wake(p) ==
    /\ loopAt[p] = "sleep"
    /\ loopAt' = [loopAt EXCEPT ![p] = "poll"]
    /\ UNCHANGED <<cycles, errors, running>>

\* ----------------------------------------------------------- specification
notPollVars == <<vars, layerVars, predictVars, storageReads, lock, cbVars, pollAt, btVars, regVars, guiVars>>

PollNext ==
    \/ (\E t \in BOOLEAN, o \in CycleOutcomes : PollSoundCycle(t, o)) /\ UNCHANGED notPollVars
    \/ PollSoundCancelled /\ UNCHANGED notPollVars
    \/ (\E o \in CycleOutcomes : MainCycle(o)) /\ UNCHANGED notPollVars
    \/ (\E o \in CycleOutcomes : CosoundLoopCycle(o)) /\ UNCHANGED notPollVars
    \/ StopRunning /\ UNCHANGED notPollVars
    \/ (\E p \in Pollers : Wake(p)) /\ UNCHANGED notPollVars

SpecPollers == Init /\ [][PollNext]_pollVars

PollTypeOK ==
    /\ loopAt \in [Pollers -> {"poll", "sleep", "raised", "stopped"}]
    /\ cycles \in [Pollers -> 0..MaxCycles]
    /\ \A p \in Pollers : errors[p] <= cycles[p]
    /\ running \in BOOLEAN

\* ---------------------------------------------------- control loop claims
\* C16: no error raised while a layer-set is fetched or applied ends a
\* control loop: none of the three loops is ever left by an exception
C16_NoErrorEndsALoop == \A p \in Pollers : loopAt[p] # "raised"

\* ============================================================= predictors
\* The backend stores, per player, the layer-set the player is to play.
\* A sound is kept as its type only (the predictors draw sounds at random
\* and no branch depends on which sound was drawn); a timestamp is a tick
\* of the backend's clock (the isoformat strings of UTC datetimes that the
\* code compares are ordered as the instants they denote).  The clock
\* advances with every vote and every prediction, so no two of them carry
\* the same timestamp.

\* ------------------------------------------------------------------ bounds
\* votes and predictions made
MaxTime == 5
\* sounds of one type in the library
MaxLibrary == 3
\* layers of a stored Cosound beyond which predictor_v1 is not run again
MaxStored == 5

\* ------------------------------------------------------- program constants
\* random.sample(soundscapes, min(3, len(soundscapes)))
SoundscapesDrawn == 3
\* random.sample(instrumentals, min(1, len(instrumentals)))
InstrumentalsDrawn == 1
\* len(current_cosound.layers) >= 3
SufficientLayers == 3

\* n layers of one type
Layers(type, n) == [i \in 1..n |-> type]

\* the layers of one type in a list of layers
OfType(layers, type) == SelectSeq(layers, LAMBDA l : l = type)

\* min(k, len(sounds))
Drawn(k, len) == IF len < k THEN len ELSE k

\* the clock has advanced when the next vote or prediction is made
Tick ==
    /\ now <= MaxTime
    /\ now' = now + 1

\* ----------------------------------------------- refresh_player (tasks.py)
\* parse_datetime(last_refresh_str), 1970-01-01 when there is no timestamp
LastRefresh == IF cosound.timestamp # NoTime THEN cosound.timestamp ELSE 0

\* Vote.objects.filter(player=player, timestamp__gt=last_refresh)
VotesData == {v \in votes : v > LastRefresh}

\* the instrumental gate with the vote test left out
HasNewVotesAlways(vs, cosound_timestamp) == TRUE

\* has_new_votes of predict_cosound (ml.py:31-38)
HasNewVotes(vs, cosound_timestamp) ==
    IF cosound_timestamp # NoTime /\ vs # {}
    THEN \E v \in vs : v # NoTime /\ v > cosound_timestamp
    ELSE vs # {}

\* predict_cosound (ml.py:8-55)
PredictCosound(player, vs, soundscapes, instrumentals) ==
    [soundscapes |-> Layers("Soundscape", Drawn(SoundscapesDrawn, soundscapes)),
     instrumental |->
        IF instrumentals > 0 /\ HasNewVotes(vs, player.cosound.timestamp)
        THEN Layers("Instrumental", Drawn(InstrumentalsDrawn, instrumentals))
        ELSE <<>>,
     timestamp |-> now]

\* refresh_player: without new votes the player is refreshed anyway nine
\* times out of ten (refresh_anyway)
RefreshPlayer(refresh_anyway) ==
    /\ Tick
    /\ IF VotesData = {} /\ ~refresh_anyway
         THEN UNCHANGED cosound
         ELSE cosound' = PredictCosound([cosound |-> cosound], VotesData,
                                        library.Soundscape, library.Instrumental)
    /\ UNCHANGED <<votes, library, v3playing>>

\* --------------------------------------------- random_cosound (V3 core)
RandomLayers ==
    Layers("Soundscape", Drawn(SoundscapesDrawn, library.Soundscape))
        \o Layers("Instrumental", Drawn(InstrumentalsDrawn, library.Instrumental))

\* if cosound: player.playing = cosound; player.save()
Stored(layers) ==
    IF layers # <<>> THEN [layers |-> layers, created_at |-> now] ELSE v3playing

RandomCosound ==
    /\ Tick
    /\ v3playing' = Stored(RandomLayers)
    /\ UNCHANGED <<votes, library, cosound>>

\* ------------------------------------------------- predictor_v1 (V3 app)
\* Vote.objects.filter(player=player, created_at__gte=current_cosound.created_at)
HasRecentVotes == \E v \in votes : v >= v3playing.created_at

\* the instrumental layers of the new Cosound (predict.py:88-108)
NextInstrumentals ==
    IF HasRecentVotes
    THEN IF library.Instrumental > 0
         THEN Append(OfType(v3playing.layers, "Instrumental"), "Instrumental")
         ELSE OfType(v3playing.layers, "Instrumental")
    ELSE <<>>

\* the layers of the new Cosound: a fresh draw when the current one has
\* fewer than three layers; otherwise the soundscape layers, one of them
\* replaced, followed by the instrumental layers
NextLayers ==
    IF Len(v3playing.layers) < SufficientLayers
    THEN Layers("Soundscape", Drawn(SoundscapesDrawn, library.Soundscape))
    ELSE OfType(v3playing.layers, "Soundscape") \o NextInstrumentals

PredictorV1 ==
    /\ Tick
    /\ Len(v3playing.layers) < MaxStored
    /\ v3playing' = Stored(NextLayers)
    /\ UNCHANGED <<votes, library, cosound>>

\* ------------------------------------------------------------- environment
\* a vote is saved with timestamp = created_at = now (auto_now_add)
CastVote ==
    /\ Tick
    /\ votes' = votes \cup {now}
    /\ UNCHANGED <<library, cosound, v3playing>>

\* a sound is added to the player's library
AddSound(type) ==
    /\ library[type] < MaxLibrary
    /\ library' = [library EXCEPT ![type] = @ + 1]
    /\ UNCHANGED <<now, votes, cosound, v3playing>>

\* ----------------------------------------------------------- specification
notPredictVars == <<vars, layerVars, pollVars, storageReads, lock, cbVars, pollAt, btVars, regVars, guiVars>>

PredictNext ==
    \/ (\E a \in BOOLEAN : RefreshPlayer(a)) /\ UNCHANGED notPredictVars
    \/ RandomCosound /\ UNCHANGED notPredictVars
    \/ PredictorV1 /\ UNCHANGED notPredictVars
    \/ CastVote /\ UNCHANGED notPredictVars
    \/ (\E type \in {"Soundscape", "Instrumental"} : AddSound(type)) /\ UNCHANGED notPredictVars

SpecPredict == Init /\ [][PredictNext]_predictVars

PredictTypeOK ==
    /\ now \in 1..(MaxTime + 1)
    /\ votes \subseteq 1..MaxTime
    /\ library \in [{"Soundscape", "Instrumental"} -> 0..MaxLibrary]
    /\ cosound.timestamp \in 0..MaxTime
    /\ Len(v3playing.layers) <= MaxStored
    /\ v3playing.created_at \in 0..MaxTime

\* ------------------------------------------------------- predictor claims
\* C17: every cosound a predictor stores has at most 3 soundscape layers
\* and at most one instrumental layer
C17_AtMostThreeAndOne ==
    /\ Len(cosound.soundscapes) <= SoundscapesDrawn
    /\ Len(cosound.instrumental) <= InstrumentalsDrawn
    /\ Len(OfType(v3playing.layers, "Soundscape")) <= SoundscapesDrawn
    /\ Len(OfType(v3playing.layers, "Instrumental")) <= InstrumentalsDrawn

\* votes cast since the player's last layer-set: later than the cosound's
\* timestamp, or any vote when the cosound has no timestamp yet
NewActivity ==
    IF cosound.timestamp = NoTime THEN votes # {}
    ELSE \E v \in votes : v > cosound.timestamp

\* C18: the result of predict_cosound that refresh_player stores has an
\* instrumental layer only when there was new voting activity since the
\* layer-set it replaces
C18_InstrumentalOnlyOnNewVotes ==
    [][\A a \in BOOLEAN :
          (/\ RefreshPlayer(a)
           /\ cosound' # cosound
           /\ cosound'.instrumental # <<>>) => NewActivity]_predictVars

\* refresh_player stored a cosound with an instrumental layer, later than
\* the first tick and with a vote cast after the first tick
C18_Witness ==
    /\ cosound.instrumental # <<>>
    /\ cosound.timestamp > 1
    /\ \E v \in votes : v > 1 /\ v <= cosound.timestamp

\* ===================================================== loading of sounds
\* Player.play and Player.transition build the sound they start with
\* pygame.mixer.Sound(str(audio_path)), which opens the file and decodes it
\* into a new buffer; neither the Player nor the LayerManager keeps the
\* Sound objects of earlier calls.

\* reads of one file that are counted
MaxReads == 2

\* play reaches line 82 once the mixer is up and the path exists
PlayLoads(sound, mixerOk) ==
    (initialized \/ mixerOk) /\ sound \in StoredSounds

\* transition reaches line 128 once the mixer is up, the path exists, and
\* neither early return was taken
TransitionLoads(sound, force, mixerOk) ==
    /\ (initialized \/ mixerOk) /\ sound \in StoredSounds
    /\ ~SameSoundContinues(sound, force)
    /\ ~TransitionInProgress

\* pygame.mixer.Sound(str(audio_path))
MixerSound(loads, sound) ==
    IF loads
    THEN /\ storageReads[sound] < MaxReads
         /\ storageReads' = [storageReads EXCEPT ![sound] = @ + 1]
    ELSE UNCHANGED storageReads

PlayLoading ==
    \E s \in Sounds, f \in BOOLEAN, ok \in MixerOutcomes :
        Play(s, f, ok) /\ MixerSound(PlayLoads(s, ok), s)

TransitionLoading ==
    \E s \in Sounds, f \in BOOLEAN, ok \in MixerOutcomes :
        Transition(s, f, ok) /\ MixerSound(TransitionLoads(s, f, ok), s)

loadVars == <<vars, storageReads>>
notLoadVars == <<layerVars, pollVars, predictVars, lock, cbVars, pollAt, btVars, regVars, guiVars>>

LoadNext ==
    \/ PlayLoading /\ UNCHANGED notLoadVars
    \/ TransitionLoading /\ UNCHANGED notLoadVars
    \/ Stop /\ UNCHANGED <<storageReads, notLoadVars>>
    \/ FadeInWorker /\ UNCHANGED <<storageReads, notLoadVars>>
    \/ CrossfadeWorker /\ UNCHANGED <<storageReads, notLoadVars>>

SpecLoad == Init /\ [][LoadNext]_loadVars

LoadTypeOK == storageReads \in [StoredSounds -> 0..MaxReads]

\* C19: a sound's file is read and decoded by the first play or transition
\* that references it and never again: no name is read from storage more
\* than once
C19_ReadOncePerName == \A s \in GoodSounds : storageReads[s] <= 1

\* ==================================================== the Player's lock
\* play, transition and stop run their bodies inside `with self._lock`; the
\* fade threads call set_volume outside it, and the crossfade thread takes
\* the lock only for its last statement (lines 164-165).

\* with self._lock: (the calling thread enters the body of a public call)
LockAcquire ==
    /\ lock = Free
    /\ lock' = Control
    /\ UNCHANGED vars

\* the end of the with block
LockRelease == lock' = Free

LockedPlay == lock = Control /\ PlayCall /\ LockRelease
LockedTransition == lock = Control /\ TransitionCall /\ LockRelease
LockedStop == lock = Control /\ Stop /\ LockRelease

\* fade_in_volume never takes the lock
UnlockedFadeIn == FadeInWorker /\ UNCHANGED lock

\* the crossfade loop, and the thread dying on pygame.error, without the lock
CrossfadeLoop(t) ==
    /\ ~initialized \/ t.i <= Steps
    /\ CrossfadeStep(t)
    /\ UNCHANGED lock

\* lines 161-164: the end volumes are written, then the thread takes the lock
CrossfadeEndsLoop(t) ==
    /\ t \in Live /\ t.kind = "crossfade"
    /\ initialized /\ t.i = Steps + 1
    /\ lock = Free
    /\ chan' = CrossfadeEndVolumes(t)
    /\ lock' = t
    /\ UNCHANGED <<playing, initialized, cur, nxt, isTrans, threads, last>>

\* line 165 and the end of the with block
CrossfadeClearsFlag(t) ==
    /\ lock = t
    /\ isTrans' = FALSE
    /\ threads' = Without(t)
    /\ LockRelease
    /\ UNCHANGED <<playing, initialized, cur, nxt, chan, last>>

UnlockedCrossfade == \E t \in Live : CrossfadeLoop(t)
CrossfadeLocks == \E t \in Live : CrossfadeEndsLoop(t)
LockedFlagClear == \E t \in Live : CrossfadeClearsFlag(t)

lockVars == <<vars, lock>>
notLockVars == <<layerVars, pollVars, predictVars, storageReads, cbVars, pollAt, btVars, regVars, guiVars>>

LockNext ==
    \/ LockAcquire /\ UNCHANGED notLockVars
    \/ LockedPlay /\ UNCHANGED notLockVars
    \/ LockedTransition /\ UNCHANGED notLockVars
    \/ LockedStop /\ UNCHANGED notLockVars
    \/ UnlockedFadeIn /\ UNCHANGED notLockVars
    \/ UnlockedCrossfade /\ UNCHANGED notLockVars
    \/ CrossfadeLocks /\ UNCHANGED notLockVars
    \/ LockedFlagClear /\ UNCHANGED notLockVars

SpecLock == Init /\ [][LockNext]_lockVars

LockTypeOK == lock \in {Free, Control} \cup {t \in ThreadValues : t.i = Steps + 1}

\* C21: every step that starts or stops a channel, writes a channel volume,
\* the playing name or the transitioning flag is a step of the thread that
\* holds the lock
C21_MutationsUnderLock ==
    [][(chan' # chan \/ playing' # playing \/ isTrans' # isTrans)
          => (lock # Free /\ lock' = Free)]_lockVars

\* ================================== the looping prototype's output callback
\* frames of the buffer
MaxBuffer == 5
\* frames of one output block
MaxFrames == 6

\* what outdata holds before the callback writes it
Stale == -1
\* outdata.fill(0), outdata[...] = 0
Silence == 0
\* playing["buffer"][i]: the frame at index i
Frame(i) == i + 1

\* end = start + frames; if end > len(buffer): end = len(buffer)
CallbackEnd(start, frames, len) ==
    IF start + frames > len THEN len ELSE start + frames

\* the position left where the block ended
NextPosNoWrap(end, len) == end

\* playing["pos"] = end % len(playing["buffer"])
NextPos(end, len) == end % len

\* outdata[: end - start] = playing["buffer"][start:end].reshape(-1, 1)
CopyFrames(out, start, end) ==
    [k \in 1..Len(out) |-> IF k <= end - start THEN Frame(start + k - 1) ELSE out[k]]

\* if frames > end - start: outdata[end - start :] = 0
ZeroRest(out, frames, start, end) ==
    IF frames > end - start
    THEN [k \in 1..Len(out) |-> IF k > end - start THEN Silence ELSE out[k]]
    ELSE out

\* the block sounddevice hands to the callback
Block(frames) == [k \in 1..frames |-> Stale]

Callback(frames) ==
    IF buffer = NoBuffer
    THEN /\ outdata' = [k \in 1..frames |-> Silence]
         /\ UNCHANGED <<buffer, pos>>
    ELSE \E end \in {CallbackEnd(pos, frames, buffer)} :
            /\ outdata' = ZeroRest(CopyFrames(Block(frames), pos, end), frames, pos, end)
            /\ pos' = NextPos(end, buffer)
            /\ UNCHANGED buffer

\* startup_event: buffer = np.zeros(max(len(y), BUFFER_SIZE)); pos = 0
Startup(len) ==
    /\ buffer = NoBuffer
    /\ buffer' = len
    /\ pos' = 0
    /\ UNCHANGED outdata

\* read_root: the clip is merged into the buffer in place; pos = 0
ReadRoot ==
    /\ buffer # NoBuffer
    /\ pos' = 0
    /\ UNCHANGED <<buffer, outdata>>

notCbVars == <<vars, layerVars, pollVars, predictVars, storageReads, lock, pollAt, btVars, regVars, guiVars>>

CallbackNext ==
    \/ (\E f \in 0..MaxFrames : Callback(f)) /\ UNCHANGED notCbVars
    \/ (\E n \in 1..MaxBuffer : Startup(n)) /\ UNCHANGED notCbVars
    \/ ReadRoot /\ UNCHANGED notCbVars

SpecCallback == Init /\ [][CallbackNext]_cbVars

CallbackTypeOK ==
    /\ buffer \in 0..MaxBuffer
    /\ pos \in 0..MaxBuffer
    /\ outdata \in UNION {[1..n -> {Stale, Silence} \cup 1..MaxBuffer] : n \in 0..MaxFrames}

Responses == Sounds \cup {None}

\* lifespan startup: new_sound = await request_sound(); if new_sound:
\* player.play(new_sound, fade_in=True); then the polling task is created
LifespanStartup(new_sound, mixerOk) ==
    /\ pollAt = "startup"
    /\ IF new_sound = None THEN UNCHANGED vars ELSE Play(new_sound, TRUE, mixerOk)
    /\ pollAt' = "check"

\* if player_module.is_transitioning(): sleep and continue; otherwise the
\* task awaits request_sound()
PollChecks ==
    /\ pollAt = "check"
    /\ pollAt' = IF IsTransitioning THEN "sleep" ELSE "request"
    /\ UNCHANGED vars

\* player_module.transition(new_sound): the module-level transition calls
\* _PLAYER.transition(sound, duration=30.0), force left at False
PollTransitions(new_sound, mixerOk) ==
    /\ pollAt = "request"
    /\ Transition(new_sound, FALSE, mixerOk)
    /\ pollAt' = "sleep"

\* request_sound has returned: lines 74-84
PollReceives(new_sound, mixerOk) ==
    IF new_sound = None
    THEN /\ pollAt = "request"
         /\ pollAt' = "sleep"
         /\ UNCHANGED vars
    ELSE PollTransitions(new_sound, mixerOk)

\* await asyncio.sleep(POLL_INTERVAL) is over
PollWakes ==
    /\ pollAt = "sleep"
    /\ pollAt' = "check"
    /\ UNCHANGED vars

Serving == pollAt \in {"check", "request", "sleep"}

\* POST /transition: player.transition(sound), run on a worker thread of
\* the server while the polling task is suspended or between its statements
TriggerTransition(sound, mixerOk) ==
    /\ Serving
    /\ Transition(sound, FALSE, mixerOk)
    /\ UNCHANGED pollAt

\* lifespan shutdown: polling_task.cancel(); player.stop()
LifespanShutdown ==
    /\ Serving
    /\ Stop
    /\ pollAt' = "shutdown"

serviceVars == <<vars, pollAt>>
notServiceVars == <<layerVars, pollVars, predictVars, storageReads, lock, cbVars, btVars, regVars, guiVars>>

ServiceNext ==
    \/ (\E s \in Responses, ok \in MixerOutcomes : LifespanStartup(s, ok)) /\ UNCHANGED notServiceVars
    \/ PollChecks /\ UNCHANGED notServiceVars
    \/ (\E s \in Responses, ok \in MixerOutcomes : PollReceives(s, ok)) /\ UNCHANGED notServiceVars
    \/ PollWakes /\ UNCHANGED notServiceVars
    \/ (\E s \in Sounds, ok \in MixerOutcomes : TriggerTransition(s, ok)) /\ UNCHANGED notServiceVars
    \/ LifespanShutdown /\ UNCHANGED notServiceVars
    \/ FadeInWorker /\ UNCHANGED <<pollAt, notServiceVars>>
    \/ CrossfadeWorker /\ UNCHANGED <<pollAt, notServiceVars>>

SpecService == Init /\ [][ServiceNext]_serviceVars

ServiceTypeOK == pollAt \in {"startup", "check", "request", "sleep", "shutdown"}

\* C23: every transition call that poll_sound makes happens while the
\* player is not transitioning, also with POST /transition in use
C23_PollNeverCallsWhileTransitioning ==
    [][\A s \in Sounds, ok \in MixerOutcomes :
          PollTransitions(s, ok) => ~IsTransitioning]_serviceVars

\* C24: when the backend returns the playing sound, poll_sound's call
\* starts a crossfade of the sound with itself
C24_SameSoundCrossfadesWithItself ==
    [][\A s \in GoodSounds :
          (s = GetPlaying /\ ~IsTransitioning /\ PollTransitions(s, TRUE))
              => (last' = "forced" /\ isTrans' /\ chan'[nxt].busy /\ chan'[nxt].sound = s)]_serviceVars

\* ==================================== Bluetooth presence: device status
\* last_seen is "fresh" or "stale" (older than now - DETECTION_TIMEOUT_SECONDS);
\* grace_period_ends_at is "null", "future" or "past" (earlier than the `now`
\* of the next cleanup run).
\* Every select and every update is one request to the database.

\* time passes: the device has not been seen for longer than the timeout
LastSeenAges ==
    /\ lastSeen = "fresh"
    /\ lastSeen' = "stale"
    /\ UNCHANGED <<status, graceEnds, cleanupAt, cleanupHas, detecting>>

\* time passes: the grace period is over.  A cleanup run compares with the
\* `now` it took when it started, so for a run in progress nothing expires
GracePeriodPasses ==
    /\ cleanupAt = "idle"
    /\ graceEnds = "future"
    /\ graceEnds' = "past"
    /\ UNCHANGED <<status, lastSeen, cleanupAt, cleanupHas, detecting>>

\* ------------------------------------------ cleanup_expired_grace_periods
\* devices_to_grace: status = connected and last_seen < timeout_threshold
CleanupSelectsStale ==
    /\ cleanupAt = "idle"
    /\ cleanupHas' = (status = "connected" /\ lastSeen = "stale")
    /\ cleanupAt' = "to_grace"
    /\ UNCHANGED <<status, graceEnds, lastSeen, detecting>>

\* for device in devices_to_grace.data: update(...).eq('id', device['id'])
CleanupStartsGrace ==
    /\ cleanupAt = "to_grace"
    /\ IF cleanupHas
         THEN status' = "grace_period" /\ graceEnds' = "future"
         ELSE UNCHANGED <<status, graceEnds>>
    /\ cleanupAt' = "select_expired"
    /\ UNCHANGED <<lastSeen, cleanupHas, detecting>>

\* expired_devices: status = grace_period and grace_period_ends_at < now
CleanupSelectsExpired ==
    /\ cleanupAt = "select_expired"
    /\ cleanupHas' = (status = "grace_period" /\ graceEnds = "past")
    /\ cleanupAt' = "expire"
    /\ UNCHANGED <<status, graceEnds, lastSeen, detecting>>

\* for device in expired_devices.data: update(...).eq('id', device['id'])
CleanupDisconnects ==
    /\ cleanupAt = "expire"
    /\ IF cleanupHas
         THEN status' = "disconnected" /\ graceEnds' = "null"
         ELSE UNCHANGED <<status, graceEnds>>
    /\ cleanupAt' = "idle"
    /\ cleanupHas' = FALSE
    /\ UNCHANGED <<lastSeen, detecting>>

\* ------------------------------------------------- update_device_detected
\* the select by MAC; a MAC that is not registered is ignored
DetectReads(h, registered) ==
    /\ detecting[h] = "idle"
    /\ detecting' = IF registered THEN [detecting EXCEPT ![h] = status] ELSE detecting
    /\ UNCHANGED <<status, graceEnds, lastSeen, cleanupAt, cleanupHas>>

\* update_data, built from the status that was read
DetectedStatus(current_status) ==
    IF current_status \in {"grace_period", "disconnected"} THEN "connected" ELSE status

\* grace_period_ends_at is part of update_data only after grace_period was read
DetectedGraceEnds(current_status) ==
    IF current_status = "grace_period" THEN "null" ELSE graceEnds

DetectUpdates(h) ==
    /\ detecting[h] # "idle"
    /\ status' = DetectedStatus(detecting[h])
    /\ graceEnds' = DetectedGraceEnds(detecting[h])
    /\ lastSeen' = "fresh"
    /\ detecting' = [detecting EXCEPT ![h] = "idle"]
    /\ UNCHANGED <<cleanupAt, cleanupHas>>

\* ---------------------------------------------------------------- check_in
CheckIn ==
    /\ status' = "connected"
    /\ lastSeen' = "fresh"
    /\ graceEnds' = "null"
    /\ UNCHANGED <<cleanupAt, cleanupHas, detecting>>

notBtVars == <<vars, layerVars, pollVars, predictVars, storageReads, lock, cbVars, pollAt, regVars, guiVars>>

BluetoothNext ==
    \/ LastSeenAges /\ UNCHANGED notBtVars
    \/ GracePeriodPasses /\ UNCHANGED notBtVars
    \/ CleanupSelectsStale /\ UNCHANGED notBtVars
    \/ CleanupStartsGrace /\ UNCHANGED notBtVars
    \/ CleanupSelectsExpired /\ UNCHANGED notBtVars
    \/ CleanupDisconnects /\ UNCHANGED notBtVars
    \/ (\E h \in Detections, r \in BOOLEAN : DetectReads(h, r)) /\ UNCHANGED notBtVars
    \/ (\E h \in Detections : DetectUpdates(h)) /\ UNCHANGED notBtVars
    \/ CheckIn /\ UNCHANGED notBtVars

SpecBluetooth == Init /\ [][BluetoothNext]_btVars

Statuses == {"connected", "grace_period", "disconnected"}

BluetoothTypeOK ==
    /\ status \in Statuses
    /\ graceEnds \in {"null", "future", "past"}
    /\ lastSeen \in {"fresh", "stale"}
    /\ cleanupAt \in {"idle", "to_grace", "select_expired", "expire"}
    /\ cleanupHas \in BOOLEAN
    /\ detecting \in [Detections -> Statuses \cup {"idle"}]

\* the status changes the claim allows
StatusEdges ==
    {<<"connected", "grace_period">>, <<"grace_period", "connected">>,
     <<"grace_period", "disconnected">>, <<"disconnected", "connected">>}

\* C25: a device's status changes only along the four edges (never from
\* connected to disconnected directly), and grace_period_ends_at is non-null
\* exactly while the status is grace_period
C25_StatusEdgesAndGraceEnd ==
    [][/\ status' # status => <<status, status'>> \in StatusEdges
       /\ (graceEnds' # "null") <=> (status' = "grace_period")]_btVars

\* ===================================== Bluetooth presence: register_device
UserIds == {"user-1", "user-2"}
DeviceMacs == {"AA:BB:CC:DD:EE:01", "AA:BB:CC:DD:EE:02"}

\* select('*').eq('user_id', user_id)
RowsOfUser(user_id) == {i \in DOMAIN rows : rows[i].user_id = user_id}
\* select('*').eq('device_mac', device_mac)
RowsOfMac(device_mac) == {i \in DOMAIN rows : rows[i].device_mac = device_mac}

\* the view has validated the body and calls service.register_device
RegisterStarts(r, user_id, device_mac) ==
    /\ registering[r].at = "idle"
    /\ registering' = [registering EXCEPT ![r] =
            [at |-> "user_check", user_id |-> user_id, device_mac |-> device_mac, result |-> ""]]
    /\ UNCHANGED rows

Ends(r, result) == [registering EXCEPT ![r].at = "done", ![r].result = result]

\* lines 44-51: raise ValueError("Device already registered for this user")
ChecksUser(r) ==
    /\ registering[r].at = "user_check"
    /\ registering' = IF RowsOfUser(registering[r].user_id) # {}
                       THEN Ends(r, "ValueError")
                       ELSE [registering EXCEPT ![r].at = "mac_check"]
    /\ UNCHANGED rows

\* lines 54-61: raise ValueError("This device MAC is already registered")
ChecksMac(r) ==
    /\ registering[r].at = "mac_check"
    /\ registering' = IF RowsOfMac(registering[r].device_mac) # {}
                       THEN Ends(r, "ValueError")
                       ELSE [registering EXCEPT ![r].at = "insert"]
    /\ UNCHANGED rows

\* the row of this request would repeat a user_id or a device_mac
Duplicates(r) ==
    RowsOfUser(registering[r].user_id) # {} \/ RowsOfMac(registering[r].device_mac) # {}

\* lines 64-97: insert(device_data).  The table is defined outside this
\* code; when it enforces uniqueness the insert of a duplicate is rejected
\* and the error is re-raised as Exception("Failed to register device: ...")
Inserts(r, enforced) ==
    /\ registering[r].at = "insert"
    /\ IF enforced /\ Duplicates(r)
         THEN /\ registering' = Ends(r, "Exception")
              /\ UNCHANGED rows
         ELSE /\ rows' = Append(rows, [user_id |-> registering[r].user_id,
                                       device_mac |-> registering[r].device_mac])
              /\ registering' = Ends(r, "registered")

notRegVars == <<vars, layerVars, pollVars, predictVars, storageReads, lock, cbVars, pollAt, btVars, guiVars>>

RegisterNext ==
    \/ (\E r \in Requests, u \in UserIds, m \in DeviceMacs : RegisterStarts(r, u, m)) /\ UNCHANGED notRegVars
    \/ (\E r \in Requests : ChecksUser(r)) /\ UNCHANGED notRegVars
    \/ (\E r \in Requests : ChecksMac(r)) /\ UNCHANGED notRegVars
    \/ (\E r \in Requests, enforced \in BOOLEAN : Inserts(r, enforced)) /\ UNCHANGED notRegVars

SpecRegister == Init /\ [][RegisterNext]_regVars

RegisterTypeOK ==
    /\ Len(rows) <= MaxRequests
    /\ \A i \in DOMAIN rows : rows[i].user_id \in UserIds /\ rows[i].device_mac \in DeviceMacs
    /\ \A r \in Requests :
          /\ registering[r].at \in {"idle", "user_check", "mac_check", "insert", "done"}
          /\ registering[r].result \in {"", "registered", "ValueError", "Exception"}

\* C26: no two device rows share a user_id or a device_mac, and no
\* registration of a user or MAC that is already there ends in anything
\* but a ValueError
C26_OneDevicePerUserAndMac ==
    /\ \A i, j \in DOMAIN rows :
          i # j => (rows[i].user_id # rows[j].user_id /\ rows[i].device_mac # rows[j].device_mac)
    /\ \A r \in Requests : registering[r].result # "Exception"

\* ================================================ Player claims, the rest
\* C27: whenever get_playing() returns a name, a channel is playing that
\* sound
C27_PlayingNameIsSounding ==
    GetPlaying # None => \E c \in Channels : chan[c].busy /\ chan[c].sound = GetPlaying

\* the fade threads are daemon threads that the scheduler keeps running:
\* a thread that is alive takes its next step
SpecLive ==
    /\ Init
    /\ [][Next]_vars
    /\ WF_vars(FadeInWorker /\ UNCHANGED otherVars)
    /\ WF_vars(CrossfadeWorker /\ UNCHANGED otherVars)

\* C28: once play has started a sound, also after a stop() that came
\* while a crossfade thread was running, the transitioning flag does not
\* stay true forever
C28_FlagClearsAfterPlay ==
    (isTrans /\ last \in {"started", "restarted"}) ~> ~isTrans

\* ================================================ the GUI player's loops
\* the modes awaiting_email .. awaiting_player are one mode, "login"

\* "login" typed in command mode
LoginBegins ==
    /\ guiMode = "command"
    /\ guiMode' = "login"
    /\ UNCHANGED <<guiRunning, loops>>

\* a failed authentication or request returns to command mode
LoginFails ==
    /\ guiMode = "login"
    /\ guiMode' = "command"
    /\ UNCHANGED <<guiRunning, loops>>

\* the tasks that have not been started yet
Unstarted == {l \in Logins : loops[l] = "none"}

\* lines 345-351: player = LayerManager(); running = True; mode = "playing";
\* page.run_task(cosound_loop)
LoginCompletes(l) ==
    /\ guiMode = "login"
    /\ l \in Unstarted /\ \A k \in Unstarted : l <= k
    /\ guiRunning' = TRUE
    /\ guiMode' = "playing"
    /\ loops' = [loops EXCEPT ![l] = "top"]

\* "stop" typed in playing mode
StopCommand ==
    /\ guiMode = "playing"
    /\ guiRunning' = FALSE
    /\ guiMode' = "command"
    /\ UNCHANGED loops

\* the reset button
ResetConsole ==
    /\ guiRunning' = FALSE
    /\ guiMode' = "command"
    /\ UNCHANGED loops

\* while running: add_output(...); cosound = await to_thread(get_cosound, ...)
LoopTests(l) ==
    /\ loops[l] = "top"
    /\ loops' = [loops EXCEPT ![l] = IF guiRunning THEN "fetching" ELSE "ended"]
    /\ UNCHANGED <<guiMode, guiRunning>>

\* get_cosound has returned: await to_thread(player.transition, ...), then
\* sleep(120)
LoopTransitions(l) ==
    /\ loops[l] = "fetching"
    /\ loops' = [loops EXCEPT ![l] = "sleeping"]
    /\ UNCHANGED <<guiMode, guiRunning>>

\* get_cosound raised: except Exception, then sleep(10)
LoopFails(l) ==
    /\ loops[l] = "fetching"
    /\ loops' = [loops EXCEPT ![l] = "asleep_after_error"]
    /\ UNCHANGED <<guiMode, guiRunning>>

\* the sleep is over
LoopWakes(l) ==
    /\ loops[l] \in {"sleeping", "asleep_after_error"}
    /\ loops' = [loops EXCEPT ![l] = "top"]
    /\ UNCHANGED <<guiMode, guiRunning>>

\* the tasks that have been started and have not left their while loop
ActiveLoops == {l \in Logins : loops[l] \notin {"none", "ended"}}

notGuiVars == <<vars, layerVars, pollVars, predictVars, storageReads, lock, cbVars, pollAt, btVars, regVars>>

GuiNext ==
    \/ LoginBegins /\ UNCHANGED notGuiVars
    \/ LoginFails /\ UNCHANGED notGuiVars
    \/ (\E l \in Logins : LoginCompletes(l)) /\ UNCHANGED notGuiVars
    \/ StopCommand /\ UNCHANGED notGuiVars
    \/ ResetConsole /\ UNCHANGED notGuiVars
    \/ (\E l \in Logins : LoopTests(l)) /\ UNCHANGED notGuiVars
    \/ (\E l \in Logins : LoopTransitions(l)) /\ UNCHANGED notGuiVars
    \/ (\E l \in Logins : LoopFails(l)) /\ UNCHANGED notGuiVars
    \/ (\E l \in Logins : LoopWakes(l)) /\ UNCHANGED notGuiVars

SpecGui == Init /\ [][GuiNext]_guiVars

GuiTypeOK ==
    /\ guiMode \in {"command", "login", "playing"}
    /\ guiRunning \in BOOLEAN
    /\ loops \in [Logins -> {"none", "top", "fetching", "sleeping", "asleep_after_error", "ended"}]

\* C29: at most one cosound loop is active at any time, and a loop calls
\* LayerManager.transition only between a completed login and the next
\* stop or reset
C29_OneLoopNoCallAfterStop ==
    [][/\ Cardinality(ActiveLoops') <= 1
       /\ \A l \in Logins : LoopTransitions(l) => guiMode = "playing"]_guiVars

\* C30: (_current_channel, _next_channel) is a permutation of (0, 1), the
\* current channel carries the sound get_playing() reports, and every
\* crossfade fades one channel out and the other one in
C30_CurrentChannelCarriesPlaying ==
    /\ {cur, nxt} = Channels
    /\ GetPlaying # None => (chan[cur].busy /\ chan[cur].sound = GetPlaying)
    /\ \A t \in Live : t.kind = "crossfade" => {t.cc, t.nc} = Channels

============================================================================
